---- MODULE Spec2Model ----
(***************************************************************************)
(* Model of the decomp/exp prototypes:                                     *)
(*   - lift/inst_fpu.go: Func.fpush, liftInstFILD and liftInstFSTP, the    *)
(*     code they emit for the emulated x87 register stack, and the         *)
(*     execution of that code;                                             *)
(*   - cmd/bin2ll/main.go: main, parseFile (chunk classification),         *)
(*     parseInst, dumpSection and the function and basic block builder.    *)
(***************************************************************************)
EXTENDS Integers, Sequences, FiniteSets, TLC

VARIABLES
    \* --- lift.Func and the machine running the code it holds ---
    f,          \* the Func being built: heap of blocks, appended blocks, cur
    pushLog,    \* history: per fpush call, its entry and join block
    mode,       \* "lift" | "run" | "done" | "unreachable" | "panic"
    pc,         \* block about to be executed (0 before the run starts)
    st,         \* contents of the stack-top cell f.st (i8)
    fpuStack,   \* contents of the cells f.fpuStack[0..7]
    regs,       \* values of the SSA temporaries computed so far
    argv,       \* runtime values of the pushed operands (src of each fpush)
    writes,     \* history: slot indices stored to, in execution order
    stHist,     \* history: value of st at the entry of each executed push
    prevStack,  \* history: fpuStack at the entry of the push being executed
    \* --- bin2ll: main and parseFile ---
    mpc,        \* position of main
    funcAddr,   \* the -func flag (0 when not given)
    d,          \* the disassembler parseFile returns (Nil before / on error)
    perr,       \* the error parseFile returned ("" for nil)
    dataAddrs,  \* parseFile's local dataAddrs, after sorting
    todo,       \* the addresses main's loop has still to visit
    lifted,     \* history: addresses decodeFunc was called with, in order
    printed,    \* history: addresses whose function was printed
    failed,     \* history: addresses for which decodeFunc returned an error
    plan,       \* history: the address list main's loop set out to visit
    raw,        \* history: the list the last parseAddrs call returned, as read
    flagGiven,  \* history: whether -func was given on the command line
    \* --- bin2ll: parseInst ---
    ipc,        \* "idle" | "ready" | "returned"
    inst,       \* the instruction under translation and its address
    ires,       \* the (stmt, err) pair parseInst returned
    \* --- bin2ll: dumpSection ---
    dpc,        \* "idle" | "loop" | "returned" | "panic"
    sect,       \* the section dumped: start address, data length, PermX
    insts,      \* the instruction index: address -> instruction length
    daddr,      \* the loop variable addr
    diter,      \* history: iterations of the loop so far
    rendered,   \* history: the byte addresses written to buf, in order
    dirs,       \* the entry point and the three data directories consulted
    labels,     \* history: the region labels written to buf, in order
    \* --- bin2ll: decodeFunc, the function and basic block builder ---
    bpc,        \* "idle" | "work" | "done" | "failed"
    bset,       \* the known basic block addresses
    work,       \* the work-list of block addresses still to decode
    visited,    \* the block addresses decoded so far
    created     \* history: the addresses of the blocks created, in order

fpuVars  == <<f, pushLog, mode, pc, st, fpuStack, regs, argv, writes, stHist, prevStack>>
mainVars == <<mpc, funcAddr, d, perr, dataAddrs, todo, lifted, printed, failed, plan, raw, flagGiven>>
instVars == <<ipc, inst, ires>>
dumpVars == <<dpc, sect, insts, daddr, diter, rendered, dirs, labels>>
buildVars == <<bpc, bset, work, visited, created>>
vars     == <<fpuVars, mainVars, instVars, dumpVars, buildVars>>

Nil == [nil |-> TRUE]

-----------------------------------------------------------------------------
(* Bounds of the model.                                                    *)

MaxPush   == 8      \* fpush calls per lifted function
NumValues == 2      \* distinct runtime values a pushed operand may take
MaxAddr   == 2      \* addresses are 0 .. MaxAddr
MaxFuncs  == 2      \* entries of funcs.json
MaxBlocks == 2      \* entries of blocks.json
MaxData   == 1      \* entries of data.json
MaxFild   == 2      \* FILD instructions per lifted function
MaxSect   == 2      \* bytes of section data
MaxInst   == 2      \* length of an indexed instruction
MaxIter   == 6      \* iterations of dumpSection's loop that are followed
MaxCode   == 3      \* code addresses are 0 .. MaxCode

-----------------------------------------------------------------------------
(* LLVM IR as built by github.com/llir/llvm/ir: a block is its list of     *)
(* instructions plus one terminator; a value is named by the place of the  *)
(* instruction that defines it.                                            *)

I8Mod    == 256                 \* types.I8
NumSlots == 8                   \* len(f.fpuStack)
Slots    == 0 .. (NumSlots - 1)

Const(n)  == [k |-> "const", b |-> 0, i |-> n]
Tmp(b, i) == [k |-> "tmp",   b |-> b, i |-> i]
Arg(n)    == [k |-> "arg",   b |-> 0, i |-> n]
NoOpnd    == [k |-> "none",  b |-> 0, i |-> 0]

CellSt      == [k |-> "st",   i |-> 0]
CellSlot(i) == [k |-> "slot", i |-> i]
NoCell      == [k |-> "none", i |-> 0]

NoTerm      == [op |-> "none", x |-> NoOpnd, targets |-> <<>>, cases |-> <<>>]
EmptyBlock  == [insts |-> <<>>, term |-> NoTerm]

NewLoad(h, b, cell) ==
    [h EXCEPT ![b].insts = Append(@, [op |-> "load", a |-> NoOpnd, b |-> NoOpnd, cell |-> cell])]
NewStore(h, b, val, cell) ==
    [h EXCEPT ![b].insts = Append(@, [op |-> "store", a |-> val, b |-> NoOpnd, cell |-> cell])]
NewICmpEq(h, b, x, y) ==
    [h EXCEPT ![b].insts = Append(@, [op |-> "icmp_eq", a |-> x, b |-> y, cell |-> NoCell])]
\* Variant: the operands of the subtraction exchanged.
NewSub_swapped(h, b, x, y) ==
    [h EXCEPT ![b].insts = Append(@, [op |-> "sub", a |-> y, b |-> x, cell |-> NoCell])]
NewSub(h, b, x, y) ==
    [h EXCEPT ![b].insts = Append(@, [op |-> "sub", a |-> x, b |-> y, cell |-> NoCell])]
NewSIToFP(h, b, x, ty) ==
    [h EXCEPT ![b].insts = Append(@, [op |-> "sitofp", a |-> x, b |-> NoOpnd, cell |-> NoCell,
                                      ty |-> ty])]
\* The value of the instruction last appended to block b.
Last(h, b) == Tmp(b, Len(h[b].insts))

\* Variant: receiver and argument exchanged, the target branching to b.
NewBr_reversed(h, b, target) ==
    [h EXCEPT ![target].term = [op |-> "br", x |-> NoOpnd, targets |-> <<b>>, cases |-> <<>>]]
NewBr(h, b, target) ==
    [h EXCEPT ![b].term = [op |-> "br", x |-> NoOpnd, targets |-> <<target>>, cases |-> <<>>]]
\* Variant: the two targets of the conditional branch exchanged.
NewCondBr_swapped(h, b, cond, t, e) ==
    [h EXCEPT ![b].term = [op |-> "condbr", x |-> cond, targets |-> <<e, t>>, cases |-> <<>>]]
NewCondBr(h, b, cond, t, e) ==
    [h EXCEPT ![b].term = [op |-> "condbr", x |-> cond, targets |-> <<t, e>>, cases |-> <<>>]]
\* targets[1] is the default target, targets[j+1] the target of cases[j].
NewSwitch(h, b, x, dflt, caseVals, caseTargets) ==
    [h EXCEPT ![b].term = [op |-> "switch", x |-> x,
                           targets |-> <<dflt>> \o caseTargets, cases |-> caseVals]]
NewUnreachable(h, b) ==
    [h EXCEPT ![b].term = [op |-> "unreachable", x |-> NoOpnd, targets |-> <<>>, cases |-> <<>>]]

-----------------------------------------------------------------------------
(* Func.fpush.                                                             *)

\* The constants of the pointer update.
zero  == 0
seven == 7
one   == 1

\* Variant: the case block of index i stores to the next slot.
CaseDst_next(i) == CellSlot((i + 1) % NumSlots)
\* The cell the case block of index i stores to: dst of `range f.fpuStack`.
CaseDst(i) == CellSlot(i)

\* Variant: the loop stops one slot short, so the last slot has no case.
RECURSIVE CaseLoop_short(_, _, _, _)
CaseLoop_short(acc, i, src, end) ==
    IF i >= NumSlots - 1 THEN acc
    ELSE LET block == Len(acc.heap) + 1
             h1 == Append(acc.heap, EmptyBlock)
             h2 == NewBr(h1, block, end)
             h3 == NewStore(h2, block, src, CellSlot(i))
         IN  CaseLoop_short([heap    |-> h3,
                             blocks  |-> Append(acc.blocks, block),
                             vals    |-> Append(acc.vals, i),
                             targets |-> Append(acc.targets, block)],
                            i + 1, src, end)

\* The loop over f.fpuStack: one block per slot, branching to end, storing src.
\* acc = [heap, blocks, vals, targets].
RECURSIVE CaseLoop(_, _, _, _)
CaseLoop(acc, i, src, end) ==
    IF i = NumSlots THEN acc
    ELSE LET block == Len(acc.heap) + 1
             h1 == Append(acc.heap, EmptyBlock)
             h2 == NewBr(h1, block, end)
             h3 == NewStore(h2, block, src, CaseDst(i))
         IN  CaseLoop([heap    |-> h3,
                       blocks  |-> Append(acc.blocks, block),
                       vals    |-> Append(acc.vals, i),
                       targets |-> Append(acc.targets, block)],
                      i + 1, src, end)

fpush(F, src) ==
    LET cur0        == F.cur
        \* Decrement st.
        h1          == NewLoad(F.heap, cur0, CellSt)
        tmp1        == Last(h1, cur0)
        targetTrue  == Len(h1) + 1
        targetFalse == Len(h1) + 2
        follow      == Len(h1) + 3
        h2          == h1 \o <<EmptyBlock, EmptyBlock, EmptyBlock>>
        h3          == NewBr(NewBr(h2, targetTrue, follow), targetFalse, follow)
        h4          == NewICmpEq(h3, cur0, tmp1, Const(zero))
        cond        == Last(h4, cur0)
        h5          == NewCondBr(h4, cur0, cond, targetTrue, targetFalse)
        b1          == Append(F.blocks, targetTrue)
        h6          == NewStore(h5, targetTrue, Const(seven), CellSt)
        b2          == Append(b1, targetFalse)
        h7          == NewSub(h6, targetFalse, tmp1, Const(one))
        tmp2        == Last(h7, targetFalse)
        h8          == NewStore(h7, targetFalse, tmp2, CellSt)
        b3          == Append(b2, follow)
        \* Store arg at st(0).
        end         == Len(h8) + 1
        h9          == Append(h8, EmptyBlock)
        loop        == CaseLoop([heap |-> h9, blocks |-> b3, vals |-> <<>>, targets |-> <<>>],
                                0, src, end)
        h10         == NewLoad(loop.heap, follow, CellSt)
        stv         == Last(h10, follow)
        defaultTarget == Len(h10) + 1
        h11         == NewUnreachable(Append(h10, EmptyBlock), defaultTarget)
        b4          == Append(loop.blocks, defaultTarget)
        h12         == NewSwitch(h11, follow, stv, defaultTarget, loop.vals, loop.targets)
    IN  [heap |-> h12, blocks |-> Append(b4, end), cur |-> end]

\* The integer operand of FILD is a 16-bit pattern (m16int).
IntMod == 65536

\* useArg: the IR value of the n-th instruction's operand.
useArg(F, n) == Arg(n)

\* Variant: the operand is pushed as it is, without conversion.
liftInstFILD_raw(F, n) ==
    [F |-> fpush(F, useArg(F, n)), err |-> Nil]

\* liftInstFILD, for the n-th lifted instruction: the function after the
\* call and the error returned.
liftInstFILD(F, n) ==
    LET arg == useArg(F, n)
        h   == NewSIToFP(F.heap, F.cur, arg, "x86_fp80")
        src == Last(h, F.cur)
    IN  [F |-> fpush([F EXCEPT !.heap = h], src), err |-> Nil]

\* liftInstFSTP: panics, leaving the function as it was.
liftInstFSTP(F) == [F |-> F, panic |-> "emitInstFSTP: not yet implemented"]

\* A function with one open block, its entry.
NewFunc == [heap |-> <<EmptyBlock>>, blocks |-> <<1>>, cur |-> 1]

-----------------------------------------------------------------------------
(* Execution of the emitted code, one basic block per step.                *)

Eval(m, o) ==
    CASE o.k = "const" -> o.i
      [] o.k = "tmp"   -> m.regs[<<o.b, o.i>>]
      [] o.k = "arg"   -> argv[o.i]

Def(m, b, i, v) == [m EXCEPT !.regs = (<<b, i>> :> v) @@ @]

\* sitofp: the number a bit pattern stands for when read as a signed integer
\* (every 16-bit integer is exactly representable in x86_fp80).
SIToFP(x) == IF x >= IntMod \div 2 THEN x - IntMod ELSE x

ExecInst(m, b, i, ins) ==
    CASE ins.op = "load" ->
            Def(m, b, i, IF ins.cell.k = "st" THEN m.st ELSE m.stack[ins.cell.i])
      [] ins.op = "icmp_eq" ->
            Def(m, b, i, IF Eval(m, ins.a) = Eval(m, ins.b) THEN 1 ELSE 0)
      [] ins.op = "sub" ->
            Def(m, b, i, (Eval(m, ins.a) - Eval(m, ins.b)) % I8Mod)
      [] ins.op = "sitofp" ->
            Def(m, b, i, SIToFP(Eval(m, ins.a)))
      [] ins.op = "store" ->
            IF ins.cell.k = "st"
            THEN [m EXCEPT !.st = Eval(m, ins.a)]
            ELSE [m EXCEPT !.stack[ins.cell.i] = Eval(m, ins.a),
                           !.writes = Append(@, ins.cell.i)]

RECURSIVE ExecInsts(_, _, _)
ExecInsts(m, b, i) ==
    IF i > Len(f.heap[b].insts) THEN m
    ELSE ExecInsts(ExecInst(m, b, i, f.heap[b].insts[i]), b, i + 1)

\* The block a terminator transfers control to (0: none).
Successor(m, t) ==
    CASE t.op = "br"     -> t.targets[1]
      [] t.op = "condbr" -> IF Eval(m, t.x) = 1 THEN t.targets[1] ELSE t.targets[2]
      [] t.op = "switch" ->
            IF \E j \in 1 .. Len(t.cases) : t.cases[j] = Eval(m, t.x)
            THEN t.targets[1 + CHOOSE j \in 1 .. Len(t.cases) : t.cases[j] = Eval(m, t.x)]
            ELSE t.targets[1]
      [] OTHER -> 0

Values == 1 .. NumValues

\* The stack contents a run may start from: every slot empty (0), every slot
\* holding the same value, or slot i holding a value that depends on i.
InitStacks ==
    { [i \in Slots |-> v] : v \in 0 .. NumValues }
        \cup { [i \in Slots |-> (i % NumValues) + 1] }

\* The values the operands of n pushes may have at run time.
ArgVals(n) ==
    { [k \in 1 .. n |-> ((v + k * s) % NumValues) + 1] : v \in 0 .. (NumValues - 1), s \in 0 .. 1 }

\* The pointer values a run of the emitted code starts from.
StartPtrs == Slots

\* The push whose entry block is b (0: none).
PushAtEntry(b) ==
    IF \E k \in 1 .. Len(pushLog) : pushLog[k].entry = b
    THEN CHOOSE k \in 1 .. Len(pushLog) : pushLog[k].entry = b
    ELSE 0

\* The push whose join block is b (0: none).
PushAtJoin(b) ==
    IF \E k \in 1 .. Len(pushLog) : pushLog[k].join = b
    THEN CHOOSE k \in 1 .. Len(pushLog) : pushLog[k].join = b
    ELSE 0

FpuReady ==
    /\ f = NewFunc
    /\ pushLog = <<>>
    /\ mode = "lift"
    /\ pc = 0
    /\ st = 0
    /\ fpuStack = [i \in Slots |-> 0]
    /\ regs = <<>>
    /\ argv = <<>>
    /\ writes = <<>>
    /\ stHist = <<>>
    /\ prevStack = [i \in Slots |-> 0]

FpuIdle ==
    /\ f = NewFunc
    /\ pushLog = <<>>
    /\ mode = "idle"
    /\ pc = 0
    /\ st = 0
    /\ fpuStack = [i \in Slots |-> 0]
    /\ regs = <<>>
    /\ argv = <<>>
    /\ writes = <<>>
    /\ stHist = <<>>
    /\ prevStack = [i \in Slots |-> 0]

\* A lifter calls f.fpush(src) with a fresh operand.
Push ==
    /\ mode = "lift"
    /\ Len(pushLog) < MaxPush
    /\ f' = fpush(f, Arg(Len(pushLog) + 1))
    /\ pushLog' = Append(pushLog, [entry |-> f.cur, join |-> f'.cur])
    /\ UNCHANGED <<mode, pc, st, fpuStack, regs, argv, writes, stHist, prevStack>>
    /\ UNCHANGED <<mainVars, instVars, dumpVars, buildVars>>

\* The lifted function starts running at its entry block.
Start ==
    /\ mode = "lift"
    /\ mode' = "run"
    /\ pc' = f.blocks[1]
    /\ st' \in StartPtrs
    /\ fpuStack' \in InitStacks
    /\ argv' \in ArgVals(Len(pushLog))
    /\ prevStack' = fpuStack'
    /\ UNCHANGED <<f, pushLog, regs, writes, stHist>>
    /\ UNCHANGED <<mainVars, instVars, dumpVars, buildVars>>

\* The 8-bit pointer values outside 0 .. 7 a run may find in the st cell: the
\* first one past the slots, the next, and the last of the range.
OutPtrs == { NumSlots, NumSlots + 1, I8Mod - 1 }

\* The lifted function starts running with the st cell holding a value that
\* is no slot index, and every slot empty.
StartOut ==
    /\ mode = "lift"
    /\ mode' = "run"
    /\ pc' = f.blocks[1]
    /\ st' \in OutPtrs
    /\ fpuStack' = [i \in Slots |-> 0]
    /\ argv' \in ArgVals(Len(pushLog))
    /\ prevStack' = fpuStack'
    /\ UNCHANGED <<f, pushLog, regs, writes, stHist>>
    /\ UNCHANGED <<mainVars, instVars, dumpVars, buildVars>>

\* The bit patterns the operand of a FILD may hold at run time.
IntPatterns == { 0, 1, IntMod \div 2, IntMod - 1 }

\* A lifter calls f.liftInstFILD(inst).
LiftFILD ==
    /\ mode = "lift"
    /\ Len(pushLog) < MaxFild
    /\ LET r == liftInstFILD(f, Len(pushLog) + 1)
       IN  /\ f' = r.F
           /\ pushLog' = Append(pushLog, [entry |-> f.cur, join |-> r.F.cur, err |-> r.err])
    /\ UNCHANGED <<mode, pc, st, fpuStack, regs, argv, writes, stHist, prevStack>>
    /\ UNCHANGED <<mainVars, instVars, dumpVars, buildVars>>

\* A lifter calls f.liftInstFSTP(inst).
LiftFSTP ==
    /\ mode = "lift"
    /\ LET r == liftInstFSTP(f)
       IN  /\ f' = r.F
           /\ mode' = IF "panic" \in DOMAIN r THEN "panic" ELSE mode
    /\ UNCHANGED <<pushLog, pc, st, fpuStack, regs, argv, writes, stHist, prevStack>>
    /\ UNCHANGED <<mainVars, instVars, dumpVars, buildVars>>

\* The lifted function starts running, its FILD operands holding any pattern.
StartFild ==
    /\ mode = "lift"
    /\ mode' = "run"
    /\ pc' = f.blocks[1]
    /\ st' \in StartPtrs
    /\ fpuStack' \in InitStacks
    /\ argv' \in [1 .. Len(pushLog) -> IntPatterns]
    /\ prevStack' = fpuStack'
    /\ UNCHANGED <<f, pushLog, regs, writes, stHist>>
    /\ UNCHANGED <<mainVars, instVars, dumpVars, buildVars>>

\* The machine executes the block at pc and follows its terminator.
Step ==
    /\ mode = "run"
    /\ LET m0 == [regs |-> regs, st |-> st, stack |-> fpuStack, writes |-> writes]
           m  == ExecInsts(m0, pc, 1)
           t  == f.heap[pc].term
       IN  /\ regs' = m.regs
           /\ writes' = m.writes
           /\ IF t.op = "unreachable"
              THEN \* undefined behaviour: the cells may end up holding anything
                   /\ mode' = "unreachable"
                   /\ pc' = pc
                   /\ st' \in 0 .. (I8Mod - 1)
                   /\ \E i \in Slots, v \in 0 .. NumValues :
                          fpuStack' = [m.stack EXCEPT ![i] = v]
              ELSE /\ st' = m.st
                   /\ fpuStack' = m.stack
                   /\ IF t.op = "none"
                      THEN mode' = "done" /\ pc' = pc
                      ELSE mode' = "run" /\ pc' = Successor(m, t)
    /\ IF PushAtEntry(pc) # 0
       THEN stHist' = Append(stHist, st) /\ prevStack' = fpuStack
       ELSE UNCHANGED <<stHist, prevStack>>
    /\ UNCHANGED <<f, pushLog, argv>>
    /\ UNCHANGED <<mainVars, instVars, dumpVars, buildVars>>

-----------------------------------------------------------------------------
(* bin2ll: parseFile and main.                                             *)

Addrs == 0 .. MaxAddr

\* The address lists a JSON file of at most n entries may hold.
RECURSIVE Lists(_)
Lists(n) ==
    IF n = 0 THEN { <<>> }
    ELSE Lists(n - 1) \cup { Append(l, a) : l \in { x \in Lists(n - 1) : Len(x) = n - 1 }, a \in Addrs }

\* Insertion of x into the sorted sequence s, after the elements not above it.
RECURSIVE InsertAddr(_, _)
InsertAddr(s, x) ==
    IF s = <<>> THEN <<x>>
    ELSE IF x < s[Len(s)] THEN Append(InsertAddr(SubSeq(s, 1, Len(s) - 1), x), s[Len(s)])
    ELSE Append(s, x)

\* sort.Sort(bin.Addresses(l)): ascending by address.
RECURSIVE SortAddrs(_)
SortAddrs(l) ==
    IF l = <<>> THEN <<>>
    ELSE InsertAddr(SortAddrs(SubSeq(l, 1, Len(l) - 1)), l[Len(l)])

kindCode == 1
kindData == 2

\* Variant: the chunk's address is left unset.
CodeChunk_noaddr(blockAddr) == [kind |-> kindCode, addr |-> 0]
\* The chunk appended for a basic block address.
CodeChunk(blockAddr) == [kind |-> kindCode, addr |-> blockAddr]
\* Variant: the data loop tags its chunks as code.
DataChunk_asCode(dataAddr) == [kind |-> kindCode, addr |-> dataAddr]
\* The chunk appended for a data address.
DataChunk(dataAddr) == [kind |-> kindData, addr |-> dataAddr]

\* The less function handed to sort.Slice.
less(ci, cj) == ci.addr < cj.addr

\* sort.Slice on a short slice: insertion sort, an element moving down past
\* each element it is less than.
RECURSIVE InsertChunk(_, _)
InsertChunk(s, c) ==
    IF s = <<>> THEN <<c>>
    ELSE IF less(c, s[Len(s)]) THEN Append(InsertChunk(SubSeq(s, 1, Len(s) - 1), c), s[Len(s)])
    ELSE Append(s, c)

RECURSIVE SortSlice(_)
SortSlice(s) ==
    IF s = <<>> THEN <<>>
    ELSE InsertChunk(SortSlice(SubSeq(s, 1, Len(s) - 1)), s[Len(s)])

\* Variant: a data address that is also a block address gets no data chunk.
Chunks_preferCode(blockAddrs, dAddrs) ==
    SortSlice([i \in 1 .. Len(blockAddrs) |-> CodeChunk(blockAddrs[i])]
                \o SelectSeq([i \in 1 .. Len(dAddrs) |-> DataChunk(dAddrs[i])],
                             LAMBDA c : \A i \in 1 .. Len(blockAddrs) : blockAddrs[i] # c.addr))

\* The chunks parseFile builds from the sorted block and data addresses.
Chunks(blockAddrs, dAddrs) ==
    SortSlice([i \in 1 .. Len(blockAddrs) |-> CodeChunk(blockAddrs[i])]
                \o [i \in 1 .. Len(dAddrs) |-> DataChunk(dAddrs[i])])

MainReady ==
    /\ mpc = "open"
    /\ flagGiven \in BOOLEAN
    /\ funcAddr \in Addrs
    /\ ~flagGiven => funcAddr = 0
    /\ raw = <<>>
    /\ d = Nil
    /\ perr = ""
    /\ dataAddrs = <<>>
    /\ todo = <<>>
    /\ lifted = <<>>
    /\ printed = <<>>
    /\ failed = <<>>
    /\ plan = <<>>

MainIdle ==
    /\ mpc = "idle"
    /\ flagGiven = FALSE
    /\ funcAddr = 0
    /\ raw = <<>>
    /\ d = Nil
    /\ perr = ""
    /\ dataAddrs = <<>>
    /\ todo = <<>>
    /\ lifted = <<>>
    /\ printed = <<>>
    /\ failed = <<>>
    /\ plan = <<>>

\* parseFile: pe.Open.
OpenPE ==
    /\ mpc = "open"
    /\ \E ok \in BOOLEAN :
          IF ok
          THEN /\ d' = [file |-> "open", funcAddrs |-> <<>>, blockAddrs |-> <<>>, chunks |-> <<>>]
               /\ mpc' = "funcs"
               /\ perr' = perr
          ELSE /\ d' = Nil
               /\ mpc' = "parsed"
               /\ perr' = "pe.Open"
    /\ UNCHANGED <<funcAddr, flagGiven, dataAddrs, todo, lifted, printed, failed, plan>>
    /\ UNCHANGED raw
    /\ UNCHANGED <<fpuVars, instVars, dumpVars, buildVars>>

\* parseFile: parse function addresses.
ParseFuncs ==
    /\ mpc = "funcs"
    /\ \/ \E l \in Lists(MaxFuncs) :
             /\ raw' = l
             /\ d' = [d EXCEPT !.funcAddrs = SortAddrs(l)]
             /\ mpc' = "blocks"
             /\ perr' = perr
       \/ /\ d' = Nil
          /\ mpc' = "parsed"
          /\ perr' = "funcs.json"
          /\ raw' = raw
    /\ UNCHANGED <<funcAddr, flagGiven, dataAddrs, todo, lifted, printed, failed, plan>>
    /\ UNCHANGED <<fpuVars, instVars, dumpVars, buildVars>>

\* Variant: the block addresses are stored as read, without sorting.
ParseBlocks_unsorted ==
    /\ mpc = "blocks"
    /\ \/ \E l \in Lists(MaxBlocks) :
             /\ raw' = l
             /\ d' = [d EXCEPT !.blockAddrs = l]
             /\ mpc' = "data"
             /\ perr' = perr
       \/ /\ d' = Nil
          /\ mpc' = "parsed"
          /\ perr' = "blocks.json"
          /\ raw' = raw
    /\ UNCHANGED <<funcAddr, flagGiven, dataAddrs, todo, lifted, printed, failed, plan>>
    /\ UNCHANGED <<fpuVars, instVars, dumpVars, buildVars>>

\* parseFile: parse basic block addresses.
ParseBlocks ==
    /\ mpc = "blocks"
    /\ \/ \E l \in Lists(MaxBlocks) :
             /\ raw' = l
             /\ d' = [d EXCEPT !.blockAddrs = SortAddrs(l)]
             /\ mpc' = "data"
             /\ perr' = perr
       \/ /\ d' = Nil
          /\ mpc' = "parsed"
          /\ perr' = "blocks.json"
          /\ raw' = raw
    /\ UNCHANGED <<funcAddr, flagGiven, dataAddrs, todo, lifted, printed, failed, plan>>
    /\ UNCHANGED <<fpuVars, instVars, dumpVars, buildVars>>

\* Variant: a failed load of data.json returns the disassembler with the error.
ParseData_keep ==
    /\ mpc = "data"
    /\ \/ \E l \in Lists(MaxData) :
             /\ raw' = l
             /\ dataAddrs' = SortAddrs(l)
             /\ d' = [d EXCEPT !.chunks = Chunks(d.blockAddrs, dataAddrs')]
             /\ perr' = perr
       \/ /\ d' = d
          /\ perr' = "data.json"
          /\ dataAddrs' = dataAddrs
          /\ raw' = raw
    /\ mpc' = "parsed"
    /\ UNCHANGED <<funcAddr, flagGiven, todo, lifted, printed, failed, plan>>
    /\ UNCHANGED <<fpuVars, instVars, dumpVars, buildVars>>

\* Variant: the function addresses are appended as code chunks too.
ParseData_funcChunks ==
    /\ mpc = "data"
    /\ \/ \E l \in Lists(MaxData) :
             /\ raw' = l
             /\ dataAddrs' = SortAddrs(l)
             /\ d' = [d EXCEPT !.chunks = Chunks(SortAddrs(d.funcAddrs \o d.blockAddrs), dataAddrs')]
             /\ perr' = perr
       \/ /\ d' = Nil
          /\ perr' = "data.json"
          /\ dataAddrs' = dataAddrs
          /\ raw' = raw
    /\ mpc' = "parsed"
    /\ UNCHANGED <<funcAddr, flagGiven, todo, lifted, printed, failed, plan>>
    /\ UNCHANGED <<fpuVars, instVars, dumpVars, buildVars>>

\* parseFile: parse data addresses, build and sort the chunks, return.
ParseData ==
    /\ mpc = "data"
    /\ \/ \E l \in Lists(MaxData) :
             /\ raw' = l
             /\ dataAddrs' = SortAddrs(l)
             /\ d' = [d EXCEPT !.chunks = Chunks(d.blockAddrs, dataAddrs')]
             /\ perr' = perr
       \/ /\ d' = Nil
          /\ perr' = "data.json"
          /\ dataAddrs' = dataAddrs
          /\ raw' = raw
    /\ mpc' = "parsed"
    /\ UNCHANGED <<funcAddr, flagGiven, todo, lifted, printed, failed, plan>>
    /\ UNCHANGED <<fpuVars, instVars, dumpVars, buildVars>>

\* Variant: the requested address is lifted in addition to the known ones.
MainCheck_both ==
    /\ mpc = "parsed"
    /\ IF perr # ""
       THEN mpc' = "fatal" /\ UNCHANGED <<todo, plan>>
       ELSE /\ mpc' = "loop"
            /\ todo' = IF funcAddr # 0 THEN <<funcAddr>> \o d.funcAddrs ELSE d.funcAddrs
            /\ plan' = todo'
    /\ UNCHANGED <<funcAddr, flagGiven, d, perr, dataAddrs, lifted, printed, failed>>
    /\ UNCHANGED raw
    /\ UNCHANGED <<fpuVars, instVars, dumpVars, buildVars>>

\* main: the check of parseFile's error and the choice of the addresses to lift.
MainCheck ==
    /\ mpc = "parsed"
    /\ IF perr # ""
       THEN mpc' = "fatal" /\ UNCHANGED <<todo, plan>>
       ELSE /\ mpc' = "loop"
            /\ todo' = IF funcAddr # 0 THEN <<funcAddr>> ELSE d.funcAddrs
            /\ plan' = todo'
    /\ UNCHANGED <<funcAddr, flagGiven, d, perr, dataAddrs, lifted, printed, failed>>
    /\ UNCHANGED raw
    /\ UNCHANGED <<fpuVars, instVars, dumpVars, buildVars>>

\* Variant: a failed decodeFunc is recorded and the loop goes on.
LiftNext_continue ==
    /\ mpc = "loop"
    /\ todo # <<>>
    /\ lifted' = Append(lifted, Head(todo))
    /\ \E ok \in BOOLEAN :
          IF ok
          THEN /\ printed' = Append(printed, Head(todo))
               /\ UNCHANGED failed
          ELSE /\ failed' = Append(failed, Head(todo))
               /\ UNCHANGED printed
    /\ todo' = Tail(todo)
    /\ UNCHANGED <<mpc, funcAddr, flagGiven, d, perr, dataAddrs, plan>>
    /\ UNCHANGED raw
    /\ UNCHANGED <<fpuVars, instVars, dumpVars, buildVars>>

\* main: one iteration of the loop over funcAddrs.
LiftNext ==
    /\ mpc = "loop"
    /\ todo # <<>>
    /\ lifted' = Append(lifted, Head(todo))
    /\ \E ok \in BOOLEAN :
          IF ok
          THEN /\ printed' = Append(printed, Head(todo))
               /\ todo' = Tail(todo)
               /\ UNCHANGED <<mpc, failed>>
          ELSE /\ failed' = Append(failed, Head(todo))
               /\ mpc' = "fatal"
               /\ UNCHANGED <<printed, todo>>
    /\ UNCHANGED <<funcAddr, flagGiven, d, perr, dataAddrs, plan>>
    /\ UNCHANGED raw
    /\ UNCHANGED <<fpuVars, instVars, dumpVars, buildVars>>

\* main: the loop has visited every address; main returns.
MainReturn ==
    /\ mpc = "loop"
    /\ todo = <<>>
    /\ mpc' = "exit"
    /\ UNCHANGED <<funcAddr, flagGiven, d, perr, dataAddrs, todo, lifted, printed, failed, plan>>
    /\ UNCHANGED raw
    /\ UNCHANGED <<fpuVars, instVars, dumpVars, buildVars>>

-----------------------------------------------------------------------------
(* bin2ll: parseInst.                                                      *)

Ops      == { "RET", "LEA", "XOR", "PUSH", "POP", "MOV", "ADD", "NOP" }
Operands == { "eax", "ecx", "mem" }

\* errutil.Newf(format, args...): the format and the values it interpolates.
Newf(format, args) == [format |-> format, args |-> args]

\* getArg: the Go expression standing for an instruction argument.
getArg(arg) == [expr |-> "ident", name |-> arg]

parseLEA(i) ==
    LET x == getArg(i.args[1])
        y == getArg(i.args[2])
    IN  [stmt |-> [kind |-> "assign", lhs |-> x, rhs |-> y], err |-> Nil]

\* Variant: the result is assigned to the second operand.
parseBinaryInst_lhsY(i) ==
    LET x == getArg(i.args[1])
        y == getArg(i.args[2])
    IN  IF i.op = "XOR"
        THEN [stmt |-> [kind |-> "assign", lhs |-> y,
                        rhs |-> [expr |-> "binary", x |-> x, op |-> "XOR", y |-> y]],
              err |-> Nil]
        ELSE [stmt |-> Nil,
              err |-> Newf("support for opcode %v not yet implemented",
                           <<[t |-> "op", v |-> i.op]>>)]

parseBinaryInst(i) ==
    LET x == getArg(i.args[1])
        y == getArg(i.args[2])
    IN  IF i.op = "XOR"
        THEN [stmt |-> [kind |-> "assign", lhs |-> x,
                        rhs |-> [expr |-> "binary", x |-> x, op |-> "XOR", y |-> y]],
              err |-> Nil]
        ELSE [stmt |-> Nil,
              err |-> Newf("support for opcode %v not yet implemented",
                           <<[t |-> "op", v |-> i.op]>>)]

\* Variant: the error interpolates nothing.
DefaultErrArgs_none(i) == <<>>
\* What the default case of parseInst interpolates into its error.
DefaultErrArgs(i) == <<[t |-> "op", v |-> i.op]>>

\* Variant: PUSH has no case of its own and reaches the default case.
parseInst_pushDefault(i) ==
    CASE i.op = "RET" -> [stmt |-> [kind |-> "return"], err |-> Nil]
      [] i.op = "LEA" -> parseLEA(i)
      [] i.op = "XOR" -> parseBinaryInst(i)
      [] i.op \in { "POP" } -> [stmt |-> Nil, err |-> Nil]
      [] OTHER -> [stmt |-> Nil,
                   err |-> Newf("support for opcode %v not yet implemented", DefaultErrArgs(i))]

parseInst(i) ==
    CASE i.op = "RET" -> [stmt |-> [kind |-> "return"], err |-> Nil]
      [] i.op = "LEA" -> parseLEA(i)
      [] i.op = "XOR" -> parseBinaryInst(i)
      [] i.op \in { "PUSH", "POP" } -> [stmt |-> Nil, err |-> Nil]
      [] OTHER -> [stmt |-> Nil,
                   err |-> Newf("support for opcode %v not yet implemented", DefaultErrArgs(i))]

InstReady ==
    /\ ipc = "ready"
    /\ inst \in [addr : Addrs, x86 : [op : Ops, args : [1 .. 2 -> Operands]]]
    /\ ires = Nil

InstIdle ==
    /\ ipc = "idle"
    /\ inst = Nil
    /\ ires = Nil

\* A caller hands the decoded instruction at inst.addr to parseInst.
ParseInst ==
    /\ ipc = "ready"
    /\ ires' = parseInst(inst.x86)
    /\ ipc' = "returned"
    /\ UNCHANGED inst
    /\ UNCHANGED <<fpuVars, mainVars, dumpVars, buildVars>>

-----------------------------------------------------------------------------
(* bin2ll: dumpSection.                                                    *)

\* The sections dumped: start address, number of data bytes, executable or not.
Sections == [addr : 0 .. 1, n : 0 .. MaxSect, x : BOOLEAN]

\* The instruction indices: some addresses from the section's start up to its
\* end address hold an instruction of some length.
Indices(sc) ==
    UNION { [as -> 0 .. MaxInst] : as \in SUBSET (sc.addr .. (sc.addr + sc.n)) }

\* end := sect.Addr + len(sect.Data)
SectEnd(sc) == sc.addr + sc.n

\* The closure data of dumpSections: whether addr has a byte in sect.Data.
data(sc, addr) == (addr - sc.addr) >= 0 /\ (addr - sc.addr) < sc.n

\* The bytes of the instruction at addr written before the first one that
\* data cannot locate.
RECURSIVE InstBytes(_, _, _, _)
InstBytes(sc, addr, i, len) ==
    IF i >= len \/ ~data(sc, addr + i) THEN <<>>
    ELSE <<[addr |-> addr + i, by |-> "inst"]>> \o InstBytes(sc, addr, i + 1, len)

\* The section dumpSections dumps after sc when the two are adjacent: it
\* starts at sc's end address and holds the bytes of any instruction there.
Adjacent(sc) == [addr |-> SectEnd(sc), n |-> MaxInst, x |-> TRUE]

\* The len bytes from addr on all lie in the data of section sc.
Inside(sc, addr, len) == addr >= sc.addr /\ addr + len <= sc.addr + sc.n

\* An address past the end address of every section of Sections.
FarAddr == MaxSect + MaxInst + 2

\* A data directory: the address imageBase + RelAddr and the Size.
Dir(addr, size) == [addr |-> addr, size |-> size]

\* A file whose entry point and directories lie outside the section dumped.
NoDirs == [entry |-> FarAddr, it |-> Dir(FarAddr, 0), rsrc |-> Dir(FarAddr, 0),
           iat |-> Dir(FarAddr, 0)]

\* The entry points and directories a dump of section sc may meet: each at
\* the start of the section, one byte into it, or outside it; a directory
\* of size 0 or 1.
DirSets(sc) ==
    LET at == { sc.addr, sc.addr + 1, FarAddr }
        ds == { Dir(a, z) : a \in at, z \in 0 .. 1 }
    IN  { [entry |-> e, it |-> i, rsrc |-> r, iat |-> Dir(FarAddr, 0)] :
              e \in at, i \in ds, r \in { Dir(FarAddr, 0), Dir(sc.addr + 1, 1) } }
        \cup { [entry |-> FarAddr, it |-> Dir(FarAddr, 0), rsrc |-> Dir(FarAddr, 0), iat |-> i] :
                  i \in ds }

\* The label `switch addr` writes: that of the first case equal to addr.
Label(ds, addr) ==
    CASE addr = ds.entry                     -> <<"start">>
      [] addr = ds.it.addr                   -> <<"import_table">>
      [] addr = ds.it.addr + ds.it.size      -> <<"import_table_size">>
      [] addr = ds.rsrc.addr                 -> <<"resource_table">>
      [] addr = ds.rsrc.addr + ds.rsrc.size  -> <<"resource_table_size">>
      [] addr = ds.iat.addr                  -> <<"iat">>
      [] addr = ds.iat.addr + ds.iat.size    -> <<"iat_size">>
      [] OTHER                               -> <<>>

DumpReady ==
    /\ dpc = "loop"
    /\ sect \in Sections
    /\ insts \in Indices(sect)
    /\ daddr = sect.addr
    /\ diter = 0
    /\ rendered = <<>>
    /\ dirs = NoDirs
    /\ labels = <<>>

\* dumpSection is called for a file whose entry point or directories may lie
\* in the section.
LabelReady ==
    /\ dpc = "loop"
    /\ sect \in Sections
    /\ insts \in Indices(sect)
    /\ daddr = sect.addr
    /\ diter = 0
    /\ rendered = <<>>
    /\ dirs \in DirSets(sect)
    /\ labels = <<>>

DumpIdle ==
    /\ dpc = "idle"
    /\ sect = Nil
    /\ insts = <<>>
    /\ daddr = 0
    /\ diter = 0
    /\ rendered = <<>>
    /\ dirs = NoDirs
    /\ labels = <<>>

\* Variant: an instruction advances addr by one byte only.
DumpIter_byOne ==
    /\ dpc = "loop"
    /\ daddr <= SectEnd(sect)
    /\ diter < MaxIter
    /\ diter' = diter + 1
    /\ IF sect.x /\ daddr \in DOMAIN insts
       THEN LET bytes == InstBytes(sect, daddr, 0, insts[daddr])
            IN  /\ rendered' = rendered \o bytes
                /\ IF Len(bytes) < insts[daddr]
                   THEN dpc' = "panic" /\ daddr' = daddr
                   ELSE dpc' = dpc /\ daddr' = daddr + 1
       ELSE /\ rendered' = IF data(sect, daddr)
                           THEN Append(rendered, [addr |-> daddr, by |-> "data"])
                           ELSE rendered
            /\ daddr' = daddr + 1
            /\ dpc' = dpc
    /\ labels' = labels \o Label(dirs, daddr)
    /\ UNCHANGED <<sect, insts, dirs>>
    /\ UNCHANGED <<fpuVars, mainVars, instVars, buildVars>>

\* Variant: an instruction advances addr to its last byte, not past it.
DumpIter_lastByte ==
    /\ dpc = "loop"
    /\ daddr <= SectEnd(sect)
    /\ diter < MaxIter
    /\ diter' = diter + 1
    /\ IF sect.x /\ daddr \in DOMAIN insts
       THEN LET bytes == InstBytes(sect, daddr, 0, insts[daddr])
            IN  /\ rendered' = rendered \o bytes
                /\ IF Len(bytes) < insts[daddr]
                   THEN dpc' = "panic" /\ daddr' = daddr
                   ELSE dpc' = dpc /\ daddr' = IF insts[daddr] = 0 THEN daddr
                                                ELSE daddr + insts[daddr] - 1
       ELSE /\ rendered' = IF data(sect, daddr)
                           THEN Append(rendered, [addr |-> daddr, by |-> "data"])
                           ELSE rendered
            /\ daddr' = daddr + 1
            /\ dpc' = dpc
    /\ labels' = labels \o Label(dirs, daddr)
    /\ UNCHANGED <<sect, insts, dirs>>
    /\ UNCHANGED <<fpuVars, mainVars, instVars, buildVars>>

\* One iteration of the loop `for addr := sect.Addr; addr <= end; { ... }`.
DumpIter ==
    /\ dpc = "loop"
    /\ daddr <= SectEnd(sect)
    /\ diter < MaxIter
    /\ diter' = diter + 1
    /\ IF sect.x /\ daddr \in DOMAIN insts
       THEN \* Dump instruction.
            LET bytes == InstBytes(sect, daddr, 0, insts[daddr])
            IN  /\ rendered' = rendered \o bytes
                /\ IF Len(bytes) < insts[daddr]
                   THEN dpc' = "panic" /\ daddr' = daddr
                   ELSE dpc' = dpc /\ daddr' = daddr + insts[daddr]
       ELSE \* Dump data.
            /\ rendered' = IF data(sect, daddr)
                           THEN Append(rendered, [addr |-> daddr, by |-> "data"])
                           ELSE rendered
            /\ daddr' = daddr + 1
            /\ dpc' = dpc
    /\ labels' = labels \o Label(dirs, daddr)
    /\ UNCHANGED <<sect, insts, dirs>>
    /\ UNCHANGED <<fpuVars, mainVars, instVars, buildVars>>

\* The loop condition fails; dumpSection writes the footer and returns buf.
DumpReturn ==
    /\ dpc = "loop"
    /\ daddr > SectEnd(sect)
    /\ dpc' = "returned"
    /\ UNCHANGED <<sect, insts, daddr, diter, rendered, dirs, labels>>
    /\ UNCHANGED <<fpuVars, mainVars, instVars, buildVars>>

-----------------------------------------------------------------------------
(* bin2ll: decodeFunc, the function and basic block builder.               *)

CodeAddrs == 0 .. MaxCode

\* What the decoder may find for the block starting at a: the address e of
\* its last instruction (no known block address lies inside the block) and
\* how it ends: a return, a jump to t, a conditional jump to t that may fall
\* through to e + 1, or no terminator before the known block address e + 1.
\* Branch targets and fall-through addresses are known block addresses.
BlockShapes(a) ==
    LET ends == { e \in a .. MaxCode : \A x \in (a + 1) .. e : x \notin bset }
    IN  { [last |-> e, succ |-> {}] : e \in ends }
            \cup { [last |-> e, succ |-> {t}] : e \in ends, t \in bset }
            \cup { [last |-> e, succ |-> {t, e + 1}] :
                       e \in { x \in ends : x + 1 \in bset }, t \in bset }
            \cup { [last |-> e, succ |-> {e + 1}] : e \in { x \in ends : x + 1 \in bset } }

\* The successors pushed onto the work-list: those not visited yet, ascending.
RECURSIVE Pushed(_, _)
Pushed(succ, seen) ==
    IF succ \ seen = {} THEN <<>>
    ELSE LET t == CHOOSE x \in succ \ seen : \A y \in succ \ seen : x <= y
         IN  <<t>> \o Pushed(succ \ {t}, seen)

BuildReady ==
    /\ bpc = "work"
    /\ bset \in SUBSET CodeAddrs
    /\ \E entry \in bset : work = <<entry>>
    /\ visited = {}
    /\ created = <<>>

BuildIdle ==
    /\ bpc = "idle"
    /\ bset = {}
    /\ work = <<>>
    /\ visited = {}
    /\ created = <<>>

\* Variant: an address taken from the work-list is decoded without asking
\* whether it was visited.
DecodeBlock_noSkip ==
    /\ bpc = "work"
    /\ work # <<>>
    /\ LET a == Head(work)
       IN  \/ \E sh \in BlockShapes(a) :
                 /\ visited' = visited \cup {a}
                 /\ created' = Append(created, a)
                 /\ work' = Tail(work) \o Pushed(sh.succ, visited')
                 /\ bpc' = bpc
           \/ /\ bpc' = "failed"
              /\ UNCHANGED <<work, visited, created>>
    /\ UNCHANGED bset
    /\ UNCHANGED <<fpuVars, mainVars, instVars, dumpVars>>

\* One turn of the work-list loop: take an address; if it was visited drop
\* it, else create its block, decode it and push its unvisited successors. A
\* decode error fails the function.
DecodeBlock ==
    /\ bpc = "work"
    /\ work # <<>>
    /\ LET a == Head(work)
       IN  IF a \in visited
           THEN /\ work' = Tail(work)
                /\ UNCHANGED <<bpc, visited, created>>
           ELSE \/ \E sh \in BlockShapes(a) :
                      /\ visited' = visited \cup {a}
                      /\ created' = Append(created, a)
                      /\ work' = Tail(work) \o Pushed(sh.succ, visited')
                      /\ bpc' = bpc
                \/ /\ bpc' = "failed"
                   /\ UNCHANGED <<work, visited, created>>
    /\ UNCHANGED bset
    /\ UNCHANGED <<fpuVars, mainVars, instVars, dumpVars>>

\* The work-list is empty: the function is complete.
BuildReturn ==
    /\ bpc = "work"
    /\ work = <<>>
    /\ bpc' = "done"
    /\ UNCHANGED <<bset, work, visited, created>>
    /\ UNCHANGED <<fpuVars, mainVars, instVars, dumpVars>>

-----------------------------------------------------------------------------
(* Specifications.                                                         *)

FpuInit  == FpuReady /\ MainIdle /\ InstIdle /\ DumpIdle /\ BuildIdle
FpuNext  == Push \/ Start \/ Step
SpecFpu  == FpuInit /\ [][FpuNext]_vars

FildNext == LiftFILD \/ LiftFSTP \/ StartFild \/ Step
SpecFild == FpuInit /\ [][FildNext]_vars

OutNext  == Push \/ StartOut \/ Step
SpecOut  == FpuInit /\ [][OutNext]_vars

MainInit == FpuIdle /\ MainReady /\ InstIdle /\ DumpIdle /\ BuildIdle
MainNext == OpenPE \/ ParseFuncs \/ ParseBlocks \/ ParseData \/ MainCheck \/ LiftNext \/ MainReturn
SpecMain == MainInit /\ [][MainNext]_vars

InstInit == FpuIdle /\ MainIdle /\ InstReady /\ DumpIdle /\ BuildIdle
InstNext == ParseInst
SpecInst == InstInit /\ [][InstNext]_vars

DumpInit == FpuIdle /\ MainIdle /\ InstIdle /\ DumpReady /\ BuildIdle
DumpNext == DumpIter \/ DumpReturn
SpecDump == DumpInit /\ [][DumpNext]_vars

\* dumpSection runs to its end without suspension: an iteration or the return
\* that can be taken is taken.
SpecDumpLive == DumpInit /\ [][DumpNext]_vars /\ WF_vars(DumpNext)

LabelInit == FpuIdle /\ MainIdle /\ InstIdle /\ LabelReady /\ BuildIdle
LabelNext == DumpIter \/ DumpReturn
SpecLabel == LabelInit /\ [][LabelNext]_vars

BuildInit == FpuIdle /\ MainIdle /\ InstIdle /\ DumpIdle /\ BuildReady
BuildNext == DecodeBlock \/ BuildReturn
SpecBuild == BuildInit /\ [][BuildNext]_vars

-----------------------------------------------------------------------------
(* Properties of the code fpush emits (SpecFpu).                           *)

\* The block at pc holds an instruction of the given kind.
Holds(b, op) == \E i \in 1 .. Len(f.heap[b].insts) : f.heap[b].insts[i].op = op
\* The block at pc reads the stack-top cell.
ReadsSt(b) ==
    \E i \in 1 .. Len(f.heap[b].insts) :
        f.heap[b].insts[i].op = "load" /\ f.heap[b].insts[i].cell = CellSt
\* The machine stands at the join block of a push it has executed.
AtJoin == mode \in { "run", "done" } /\ PushAtJoin(pc) # 0

\* C1: one executed push started with pointer p in 0..7 leaves the stack-top
\* cell holding 7 if p = 0 and p - 1 otherwise; the block holding the
\* subtraction is only entered with its minuend in 1..7, so the 8-bit
\* subtraction never wraps.
C1_PointerUpdate ==
    /\ AtJoin =>
          LET p == stHist[PushAtJoin(pc)]
          IN  /\ p \in 0 .. 7
              /\ st = IF p = 0 THEN 7 ELSE p - 1
    /\ mode = "run" =>
          \A i \in 1 .. Len(f.heap[pc].insts) :
              f.heap[pc].insts[i].op = "sub" =>
                  /\ f.heap[pc].insts[i].a.k = "tmp"
                  /\ f.heap[pc].insts[i].b = Const(1)
                  /\ regs[<<f.heap[pc].insts[i].a.b, f.heap[pc].insts[i].a.i>>] \in 1 .. 7

\* Both arms of C1 taken: a push that started at 0 has ended with 7, after an
\* earlier push went through the subtraction.
C1_Witness ==
    /\ AtJoin
    /\ PushAtJoin(pc) >= 2
    /\ stHist[PushAtJoin(pc)] = 0
    /\ st = 7
    /\ stHist[PushAtJoin(pc) - 1] = 1

\* C2: one executed push writes exactly one slot, the slot the new pointer
\* names, with the pushed value; the other 7 slots, the previous top among
\* them, keep the contents they had when the push started.
C2_OneSlotWritten ==
    AtJoin =>
        LET k == PushAtJoin(pc)
        IN  /\ Len(writes) = k
            /\ st \in Slots
            /\ writes[k] = st
            /\ fpuStack[st] = argv[k]
            /\ stHist[k] # st
            /\ \A j \in Slots : j # st => fpuStack[j] = prevStack[j]

\* A push has replaced different contents of the new top slot, while the
\* previous top holds yet another value.
C2_Witness ==
    /\ AtJoin
    /\ st \in Slots
    /\ prevStack[st] # fpuStack[st]
    /\ stHist[PushAtJoin(pc)] \in Slots
    /\ fpuStack[stHist[PushAtJoin(pc)]] # fpuStack[st]

\* C3: after 8 consecutive executed pushes the pointer is back at the value p
\* it had before them and the 8 stores went, in order, to the slots p-1, p-2,
\* ... (wrapping from 0 to 7), each slot once.
C3_FullWrap ==
    (AtJoin /\ PushAtJoin(pc) >= 8) =>
        LET k == PushAtJoin(pc)
            p == stHist[k - 7]
        IN  /\ st = p
            /\ Len(writes) = k
            /\ \A j \in 1 .. 8 : writes[k - 8 + j] = (p - j) % 8
            /\ { writes[k - 8 + j] : j \in 1 .. 8 } = 0 .. 7

\* Eight pushes from pointer 3 have been executed, the wrap among them.
C3_Witness ==
    /\ AtJoin
    /\ PushAtJoin(pc) = 8
    /\ stHist[1] = 3
    /\ st = 3
    /\ writes = <<2, 1, 0, 7, 6, 5, 4, 3>>

\* C4: started with the pointer in 0..7, the emitted code reads the stack-top
\* cell only while it holds a value in 0..7, and never enters the block of
\* the switch's default target.
C4_PointerInRange ==
    /\ mode # "unreachable"
    /\ mode = "run" =>
          /\ f.heap[pc].term.op # "unreachable"
          /\ ReadsSt(pc) => st \in 0 .. 7

\* The pointer is read by a switch after a push wrapped it to 7.
C4_Witness ==
    /\ mode = "run"
    /\ ReadsSt(pc)
    /\ f.heap[pc].term.op = "switch"
    /\ st = 7
    /\ stHist # <<>>
    /\ stHist[Len(stHist)] = 0

-----------------------------------------------------------------------------
(* Properties of parseFile and main (SpecMain).                            *)

Range(s) == { s[i] : i \in 1 .. Len(s) }
NoRepeat(s) == \A i, j \in 1 .. Len(s) : i # j => s[i] # s[j]
\* parseFile has returned a disassembler.
Returned == mpc \in { "parsed", "loop", "exit", "fatal" } /\ perr = "" /\ d # Nil
\* The chunk sequence c is what C5 asks for, given the two address lists.
Classified(c, blockAddrs, dAddrs) ==
    /\ \A i \in 1 .. Len(c) - 1 : c[i].addr < c[i + 1].addr
    /\ \A a \in Range(blockAddrs) \cup Range(dAddrs) :
           Cardinality({ i \in 1 .. Len(c) : c[i].addr = a }) = 1
    /\ \A i \in 1 .. Len(c) : c[i].addr \in Range(blockAddrs) \cup Range(dAddrs)
    /\ \A i \in 1 .. Len(c) :
           /\ c[i].addr \in Range(blockAddrs) => c[i].kind = kindCode
           /\ c[i].addr \in Range(dAddrs) => c[i].kind = kindData

\* C5 as stated: for any block list and data list sharing no address, the
\* chunk sequence is strictly ascending, has one chunk per input address and
\* tags block addresses as code and data addresses as data.
C5_Stated ==
    (Returned /\ Range(d.blockAddrs) \cap Range(dataAddrs) = {}) =>
        Classified(d.chunks, d.blockAddrs, dataAddrs)

\* C5, amended: the same, for lists that share no address and in which no
\* address is repeated.
C5_Classified ==
    (Returned /\ Range(d.blockAddrs) \cap Range(dataAddrs) = {}
              /\ NoRepeat(d.blockAddrs) /\ NoRepeat(dataAddrs)) =>
        Classified(d.chunks, d.blockAddrs, dataAddrs)

\* Two block addresses and a data address between them have been classified.
C5_Witness ==
    /\ Returned
    /\ d.blockAddrs = <<0, 2>>
    /\ dataAddrs = <<1>>
    /\ d.chunks = <<[kind |-> kindCode, addr |-> 0], [kind |-> kindData, addr |-> 1],
                    [kind |-> kindCode, addr |-> 2]>>

\* C6 as stated: whatever the input lists, no two chunks share an address.
C6_Stated ==
    Returned => \A i, j \in 1 .. Len(d.chunks) : i # j => d.chunks[i].addr # d.chunks[j].addr

\* C6, amended: the chunk sequence holds one chunk per entry of the two
\* lists, so two chunks share an address exactly when an address occurs more
\* than once in the block list and the data list taken together.
C6_ChunkPerEntry ==
    Returned =>
        /\ Len(d.chunks) = Len(d.blockAddrs) + Len(dataAddrs)
        /\ \A a \in Addrs :
               Cardinality({ i \in 1 .. Len(d.chunks) : d.chunks[i].addr = a })
                   = Cardinality({ i \in 1 .. Len(d.blockAddrs) : d.blockAddrs[i] = a })
                       + Cardinality({ i \in 1 .. Len(dataAddrs) : dataAddrs[i] = a })
        /\ NoRepeat([i \in 1 .. Len(d.chunks) |-> d.chunks[i].addr])
               <=> NoRepeat(d.blockAddrs \o dataAddrs)

\* A block address given twice has been classified into two chunks.
C6_Witness ==
    /\ Returned
    /\ d.blockAddrs = <<1, 1>>
    /\ Len(d.chunks) >= 2
    /\ d.chunks[1].addr = 1
    /\ d.chunks[2].addr = 1

\* C7 as stated: parseFile returns no chunk sequence when an address is in
\* both the block list and the data list.
C7_Stated ==
    Returned => Range(d.blockAddrs) \cap Range(dataAddrs) = {}

\* C7, amended: an address in both lists is no error; parseFile returns a
\* chunk sequence holding a code chunk and a data chunk for that address. The
\* only errors parseFile returns are those of opening and loading its files.
C7_BothKinds ==
    /\ perr \in { "", "pe.Open", "funcs.json", "blocks.json", "data.json" }
    /\ Returned =>
          \A a \in Range(d.blockAddrs) \cap Range(dataAddrs) :
              /\ \E i \in 1 .. Len(d.chunks) : d.chunks[i] = [kind |-> kindCode, addr |-> a]
              /\ \E i \in 1 .. Len(d.chunks) : d.chunks[i] = [kind |-> kindData, addr |-> a]

\* Address 2 was in both lists and parseFile returned its two chunks.
C7_Witness ==
    /\ Returned
    /\ 2 \in Range(d.blockAddrs) \cap Range(dataAddrs)
    /\ Len(d.chunks) >= 2

\* C8 as stated: a run in which decodeFunc failed for a function still calls
\* decodeFunc for every function of its list, those after the failing one
\* included.
C8_Stated ==
    (mpc \in { "fatal", "exit" } /\ failed # <<>>) => lifted = plan

\* C8, amended: the run ends at the first function for which decodeFunc
\* fails: the functions before it in the list have been lifted and printed,
\* the failing one is not printed, and no function after it is lifted.
C8_StopsAtFailure ==
    failed # <<>> =>
        /\ mpc = "fatal"
        /\ Len(failed) = 1
        /\ lifted = SubSeq(plan, 1, Len(lifted))
        /\ failed[1] = lifted[Len(lifted)]
        /\ printed = SubSeq(lifted, 1, Len(lifted) - 1)
        /\ todo = SubSeq(plan, Len(lifted), Len(plan))

\* decodeFunc failed for the first of two functions; the second is not lifted.
C8_Witness ==
    /\ mpc = "fatal"
    /\ failed # <<>>
    /\ Len(plan) = 2
    /\ lifted = <<plan[1]>>
    /\ plan[2] # plan[1]

\* C10: when parseFile's error is that of a list that failed to load,
\* parseFile has returned no disassembler, main goes from there to its fatal
\* exit only, and decodeFunc has not been called for any function.
C10_LoadFailureAborts ==
    perr \in { "funcs.json", "blocks.json", "data.json" } =>
        /\ d = Nil
        /\ mpc \in { "parsed", "fatal" }
        /\ lifted = <<>>
        /\ printed = <<>>

\* The run has ended on a failed load of data.json, the other two lists loaded.
C10_Witness ==
    /\ mpc = "fatal"
    /\ perr = "data.json"
    /\ lifted = <<>>

-----------------------------------------------------------------------------
(* Properties of parseInst (SpecInst).                                     *)

Handled == { "RET", "LEA", "XOR", "PUSH", "POP" }
\* The error e interpolates the value v under the tag t.
Names(e, t, v) == \E i \in 1 .. Len(e.args) : e.args[i].t = t /\ e.args[i].v = v
\* parseInst has returned for an instruction whose opcode has no handler.
ReturnedUnhandled == ipc = "returned" /\ inst.x86.op \notin Handled

\* C9 as stated: for an opcode without handler the error names the opcode and
\* the instruction's address, and no statement is returned.
C9_Stated ==
    ReturnedUnhandled =>
        /\ ires.stmt = Nil
        /\ ires.err # Nil
        /\ Names(ires.err, "op", inst.x86.op)
        /\ Names(ires.err, "addr", inst.addr)

\* C9, amended: for an opcode without handler parseInst returns no statement
\* and an error that names the opcode and nothing else; the address is no
\* part of the instruction parseInst is given.
C9_NamesOpcode ==
    ReturnedUnhandled =>
        /\ ires.stmt = Nil
        /\ ires.err # Nil
        /\ Names(ires.err, "op", inst.x86.op)
        /\ Len(ires.err.args) = 1

\* parseInst has returned for a MOV at address 1.
C9_Witness ==
    /\ ReturnedUnhandled
    /\ inst.x86.op = "MOV"
    /\ inst.addr = 1
    /\ ires.err # Nil

-----------------------------------------------------------------------------
(* Properties of dumpSection (SpecDump).                                   *)

\* C11: the byte addresses dumpSection has written are, at every moment, the
\* first addresses of the section in ascending order without gap or repeat,
\* and when it returns they are all N addresses of the section's data, each
\* written once, as a byte of an instruction or as a data byte.
C11_EachByteOnce ==
    /\ Len(rendered) <= sect.n
    /\ \A i \in 1 .. Len(rendered) :
           /\ rendered[i].addr = sect.addr + i - 1
           /\ rendered[i].by \in { "inst", "data" }
    /\ dpc = "returned" => Len(rendered) = sect.n

\* dumpSection has returned for a section whose first bytes were written as
\* a 2-byte instruction and whose last byte was written as data.
C11_Witness ==
    /\ dpc = "returned"
    /\ sect.n >= 2
    /\ Len(rendered) = sect.n
    /\ rendered[1].by = "inst"
    /\ rendered[2].by = "inst"
    /\ insts[sect.addr] = 2

-----------------------------------------------------------------------------
(* Further properties of parseFile and main (SpecMain).                    *)

Count(s, x) == Cardinality({ i \in 1 .. Len(s) : s[i] = x })
Ascending(s) == \A i \in 1 .. Len(s) - 1 : s[i] <= s[i + 1]
\* s is the one ascending arrangement of the entries of t.
ArrangementOf(s, t) ==
    /\ Len(s) = Len(t)
    /\ Ascending(s)
    /\ \A a \in Addrs : Count(s, a) = Count(t, a)

\* C12: what parseFile stores depends on the entries of its input lists, not
\* on their order: funcAddrs, blockAddrs and dataAddrs are the ascending
\* arrangement of the list read, and the chunk sequence is the one sequence
\* that holds a code chunk per block entry and a data chunk per data entry,
\* ascending by address, the code chunks of an address before its data chunks.
C12_OrderIndependent ==
    /\ mpc = "blocks" => ArrangementOf(d.funcAddrs, raw)
    /\ mpc = "data" => ArrangementOf(d.blockAddrs, raw) /\ Ascending(d.funcAddrs)
    /\ Returned =>
          /\ ArrangementOf(dataAddrs, raw)
          /\ Ascending(d.funcAddrs)
          /\ Ascending(d.blockAddrs)
          /\ Len(d.chunks) = Len(d.blockAddrs) + Len(dataAddrs)
          /\ \A a \in Addrs :
                 /\ Count(d.chunks, [kind |-> kindCode, addr |-> a]) = Count(d.blockAddrs, a)
                 /\ Count(d.chunks, [kind |-> kindData, addr |-> a]) = Count(dataAddrs, a)
          /\ \A i \in 1 .. Len(d.chunks) - 1 :
                 \/ d.chunks[i].addr < d.chunks[i + 1].addr
                 \/ /\ d.chunks[i].addr = d.chunks[i + 1].addr
                    /\ d.chunks[i].kind <= d.chunks[i + 1].kind

\* Address 2 was in the block list and in the data list; its code chunk
\* stands before its data chunk.
C12_Witness ==
    /\ Returned
    /\ d.blockAddrs = <<1, 2>>
    /\ raw = <<2>>
    /\ d.chunks = <<[kind |-> kindCode, addr |-> 1], [kind |-> kindCode, addr |-> 2],
                    [kind |-> kindData, addr |-> 2]>>

\* main has chosen the addresses to lift.
Chosen == mpc \in { "loop", "exit", "fatal" } /\ perr = ""

\* C13 as stated: with an address requested the loop visits that address
\* only; otherwise it visits every known function address, in strictly
\* ascending order, each once; and a run that ends has called decodeFunc for
\* all of them.
C13_Stated ==
    Chosen =>
        /\ flagGiven => plan = <<funcAddr>>
        /\ ~flagGiven =>
              /\ \A i \in 1 .. Len(plan) - 1 : plan[i] < plan[i + 1]
              /\ Range(plan) = Range(d.funcAddrs)
        /\ mpc \in { "exit", "fatal" } => lifted = plan

\* C13, amended: with a nonzero address requested the loop visits that
\* address only; otherwise (no address requested, or address 0) it visits the
\* entries of the function list in ascending order, once per entry, so an
\* address listed twice is visited twice. decodeFunc is called for the
\* addresses in that order, up to the first one for which it fails.
C13_LiftOrder ==
    Chosen =>
        /\ funcAddr # 0 => plan = <<funcAddr>>
        /\ funcAddr = 0 => plan = d.funcAddrs /\ Ascending(plan)
        /\ Len(lifted) <= Len(plan)
        /\ lifted = SubSeq(plan, 1, Len(lifted))
        /\ mpc = "exit" => lifted = plan
        /\ mpc = "fatal" => failed = <<lifted[Len(lifted)]>>
        /\ mpc # "fatal" => failed = <<>>

\* The function list held address 1 twice and the run lifted it twice.
C13_Witness ==
    /\ mpc = "exit"
    /\ ~flagGiven
    /\ plan = <<1, 1>>
    /\ lifted = <<1, 1>>

\* C14: the addresses of the chunks are the block addresses and the data
\* addresses, so a function address that is in neither list has no chunk.
C14_NoFuncChunk ==
    Returned =>
        /\ { d.chunks[i].addr : i \in 1 .. Len(d.chunks) } = Range(d.blockAddrs) \cup Range(dataAddrs)
        /\ \A a \in Range(d.funcAddrs) \ (Range(d.blockAddrs) \cup Range(dataAddrs)) :
               \A i \in 1 .. Len(d.chunks) : d.chunks[i].addr # a

\* A function address outside both lists, next to a block and a data chunk.
C14_Witness ==
    /\ Returned
    /\ d.funcAddrs = <<1>>
    /\ d.blockAddrs = <<0>>
    /\ dataAddrs = <<2>>
    /\ Len(d.chunks) = 2

\* C25: a run with the function option set to address 0, for a file whose
\* function list holds address 0, sets out to lift the function at address
\* 0 only, and lifts no other address of the list.
C25_Stated ==
    (Chosen /\ flagGiven /\ funcAddr = 0 /\ 0 \in Range(d.funcAddrs))
        => (plan = <<0>> /\ Range(lifted) \subseteq {0})

-----------------------------------------------------------------------------
(* Properties of the FPU lifters (SpecFild) and of fpush's blocks (SpecFpu). *)

\* C15: lifting a FILD returns no error and emits, in the open block, one
\* conversion of the operand from signed integer to x86_fp80, followed by one
\* push: executed, it moves the pointer down by one (from 0 to 7) and stores
\* once, into the new top slot, the number the operand stands for as a signed
\* integer.
C15_FildPushesConverted ==
    /\ \A k \in 1 .. Len(pushLog) :
           /\ pushLog[k].err = Nil
           /\ LET is == f.heap[pushLog[k].entry].insts
              IN  /\ Cardinality({ i \in 1 .. Len(is) : is[i].op = "sitofp" }) = 1
                  /\ \A i \in 1 .. Len(is) :
                         is[i].op = "sitofp" => is[i].a = Arg(k) /\ is[i].ty = "x86_fp80"
    /\ AtJoin =>
          LET k == PushAtJoin(pc)
              p == stHist[k]
          IN  /\ st = IF p = 0 THEN 7 ELSE p - 1
              /\ Len(writes) = k
              /\ writes[k] = st
              /\ fpuStack[st] >= -32768
              /\ fpuStack[st] <= 32767
              /\ (fpuStack[st] - argv[k]) % 65536 = 0
              /\ \A j \in Slots : j # st => fpuStack[j] = prevStack[j]

\* A FILD of the pattern 0xFFFF, run with the pointer at 0, has left -1 in
\* slot 7.
C15_Witness ==
    /\ AtJoin
    /\ stHist[PushAtJoin(pc)] = 0
    /\ argv[PushAtJoin(pc)] = 65535
    /\ st = 7
    /\ fpuStack[7] = -1

\* C18: the emulator provides a pop, so the lifter of the instruction that
\* stores and pops (FSTP) emits code for it: lifting never ends in a panic.
C18_Stated == mode # "panic"

\* C20: after any sequence of fpush calls every block of the function has
\* been appended once, the only block without terminator is the current
\* block, which is the join block of the last push; the entry block of each
\* push ends in a conditional branch whose two arms branch to one follow
\* block, and the follow block ends in a switch whose 8 case blocks all
\* branch to the push's join block and whose default block is unreachable.
C20_BlockStructure ==
    /\ \A b \in 1 .. Len(f.heap) :
           /\ f.heap[b].term.op = "none" <=> b = f.cur
           /\ Cardinality({ i \in 1 .. Len(f.blocks) : f.blocks[i] = b }) = 1
    /\ f.cur = IF pushLog = <<>> THEN 1 ELSE pushLog[Len(pushLog)].join
    /\ \A k \in 1 .. Len(pushLog) :
           LET e == f.heap[pushLog[k].entry].term
           IN  /\ e.op = "condbr"
               /\ Len(e.targets) = 2
               /\ e.targets[1] # e.targets[2]
               /\ f.heap[e.targets[1]].term.op = "br"
               /\ f.heap[e.targets[2]].term.op = "br"
               /\ f.heap[e.targets[1]].term.targets = f.heap[e.targets[2]].term.targets
               /\ LET sw == f.heap[f.heap[e.targets[1]].term.targets[1]].term
                  IN  /\ sw.op = "switch"
                      /\ sw.cases = <<0, 1, 2, 3, 4, 5, 6, 7>>
                      /\ Len(sw.targets) = 9
                      /\ f.heap[sw.targets[1]].term.op = "unreachable"
                      /\ \A j \in 2 .. 9 :
                             /\ f.heap[sw.targets[j]].term.op = "br"
                             /\ f.heap[sw.targets[j]].term.targets = <<pushLog[k].join>>

\* Two pushes have been emitted: 27 blocks, the last join block open.
C20_Witness ==
    /\ mode = "lift"
    /\ Len(pushLog) = 2
    /\ Len(f.heap) = 27
    /\ f.cur = pushLog[2].join
    /\ f.heap[f.cur].term.op = "none"

-----------------------------------------------------------------------------
(* Progress of dumpSection's loop (SpecDumpLive).                          *)

\* An iteration of the loop has been completed by this step.
Iterated == dpc = "loop" /\ dpc' = "loop" /\ diter' = diter + 1

\* The loop is at an address it renders as an instruction of length 0.
AtEmptyInst == sect.x /\ daddr \in DOMAIN insts /\ insts[daddr] = 0

\* No indexed instruction of an executable section has length 0.
NoEmptyInst == sect.x => \A a \in DOMAIN insts : insts[a] > 0

\* C22 as stated: every iteration of the loop strictly increases the address,
\* whatever non-negative lengths the indexed instructions have.
C22_Stated == [][Iterated => daddr' > daddr]_vars

\* C22 amended: an iteration strictly increases the address unless it is at
\* an instruction of length 0, which leaves the address as it was; when no
\* indexed instruction has length 0 the loop ends, by the return with the
\* address one past the end address or by the panic.
C22_Progress ==
    /\ [][Iterated => IF AtEmptyInst THEN daddr' = daddr ELSE daddr' > daddr]_vars
    /\ [](dpc = "returned" => daddr = SectEnd(sect) + 1)
    /\ [](NoEmptyInst => <>(dpc \in { "returned", "panic" }))

\* dumpSection has returned after two iterations: the 2-byte instruction at
\* the start of the section, then the end address.
C22_Witness ==
    /\ dpc = "returned"
    /\ sect.x
    /\ sect.n = 2
    /\ sect.addr \in DOMAIN insts
    /\ insts[sect.addr] = 2
    /\ diter = 2
    /\ daddr = SectEnd(sect) + 1

-----------------------------------------------------------------------------
(* The panic of dumpSection (SpecDump).                                    *)

\* Every indexed instruction has its bytes in the data of one section: the
\* section dumped or the one adjacent to it.
WellPlaced ==
    \A a \in DOMAIN insts :
        Inside(sect, a, insts[a]) \/ Inside(Adjacent(sect), a, insts[a])

\* C23: when the bytes of every indexed instruction lie inside the data of
\* one section, dumpSection does not reach the "unable to locate data"
\* panic, also when an instruction starts at the section's end address.
C23_Stated == (dpc # "idle" /\ WellPlaced) => dpc # "panic"

-----------------------------------------------------------------------------
(* The region labels of dumpSection (SpecLabel).                           *)

\* The address of each special-region boundary.
Boundaries ==
    [start               |-> dirs.entry,
     import_table        |-> dirs.it.addr,
     import_table_size   |-> dirs.it.addr + dirs.it.size,
     resource_table      |-> dirs.rsrc.addr,
     resource_table_size |-> dirs.rsrc.addr + dirs.rsrc.size,
     iat                 |-> dirs.iat.addr,
     iat_size            |-> dirs.iat.addr + dirs.iat.size]

\* C24: when dumpSection has returned, every boundary whose address lies in
\* the section's range, from its start address to its end address, has had
\* its label written exactly once, also when two boundaries share an
\* address or a boundary lies inside a rendered instruction.
C24_Stated ==
    dpc = "returned" =>
        \A b \in DOMAIN Boundaries :
            (Boundaries[b] >= sect.addr /\ Boundaries[b] <= SectEnd(sect))
                => Cardinality({ i \in 1 .. Len(labels) : labels[i] = b }) = 1

-----------------------------------------------------------------------------
(* Properties of fpush's code when st holds no slot index (SpecOut).       *)

\* The first push's code has been run through: control is at its join block
\* or stopped at an unreachable.
FirstPushRan ==
    /\ Len(stHist) >= 1
    /\ \/ mode = "unreachable"
       \/ mode \in { "run", "done" } /\ pc = pushLog[1].join

\* C21: when the st cell holds an 8-bit value outside 0 .. 7 as fpush's code
\* starts, the run reaches the switch's unreachable default and the pushed
\* value is stored into no slot.
C21_Stated ==
    (FirstPushRan /\ stHist[1] \notin Slots)
        => (mode = "unreachable" /\ writes = <<>>)

-----------------------------------------------------------------------------
(* Further properties of parseInst (SpecInst).                             *)

\* C16: for an XOR with operands x and y parseInst returns no error and one
\* assignment statement whose destination is the expression of x and whose
\* right-hand side is the binary expression x XOR y.
C16_XorAssign ==
    (ipc = "returned" /\ inst.x86.op = "XOR") =>
        /\ ires.err = Nil
        /\ ires.stmt # Nil
        /\ ires.stmt.kind = "assign"
        /\ ires.stmt.lhs.expr = "ident"
        /\ ires.stmt.lhs.name = inst.x86.args[1]
        /\ ires.stmt.rhs.expr = "binary"
        /\ ires.stmt.rhs.op = "XOR"
        /\ ires.stmt.rhs.x = ires.stmt.lhs
        /\ ires.stmt.rhs.y.expr = "ident"
        /\ ires.stmt.rhs.y.name = inst.x86.args[2]

\* parseInst has returned for `xor eax, mem`.
C16_Witness ==
    /\ ipc = "returned"
    /\ inst.x86.op = "XOR"
    /\ inst.x86.args = <<"eax", "mem">>
    /\ ires.stmt # Nil

\* C17: for a PUSH or a POP parseInst returns no statement and no error.
C17_PushPopDropped ==
    (ipc = "returned" /\ inst.x86.op \in { "PUSH", "POP" }) =>
        /\ ires.stmt = Nil
        /\ ires.err = Nil

\* parseInst has returned for a PUSH.
C17_Witness ==
    /\ ipc = "returned"
    /\ inst.x86.op = "PUSH"
    /\ ires = [stmt |-> Nil, err |-> Nil]

-----------------------------------------------------------------------------
(* Properties of the function and basic block builder (SpecBuild).         *)

====
